---- MODULE Spec2Model ----
(***************************************************************************)
(* A model of cloud/amazon/route53.py: the route53 module's main() (one    *)
(* reconciliation run against the DNS provider) and its commit() retry     *)
(* loop.                                                                   *)
(*                                                                         *)
(* Python values are modelled by what the code does with them:             *)
(*   - a str is a sequence of one-character strings, so that split, join,  *)
(*     replace, slicing and the lexicographic order of sorted() are        *)
(*     computed and not assumed;                                           *)
(*   - a value that may be an int or a str (ttl) or a str, a list or None  *)
(*     (value) is a record tagged with its Python type, so that == between *)
(*     an int and a str is False as in Python 2;                           *)
(*   - None and '' are both the empty sequence where the code only tests   *)
(*     truthiness (record, type, vpc_id, region).                          *)
(***************************************************************************)
EXTENDS Integers, Sequences, FiniteSets, TLC

(***************************************************************************)
(* Bounds of the model.                                                    *)
(***************************************************************************)
\* the largest number of record sets the zone holds in an initial state
MaxSets == 2
\* the number of runs of main() in one behaviour (a run and its re-runs)
MaxRuns == 2

(***************************************************************************)
(* Python str, list and int helpers.                                       *)
(***************************************************************************)
\* ord(c) for the characters the model uses
Ord(c) ==
  CASE c = "*" -> 42
    [] c = "," -> 44
    [] c = "." -> 46
    [] c = "0" -> 48
    [] c = "1" -> 49
    [] c = "2" -> 50
    [] c = "3" -> 51
    [] c = "4" -> 52
    [] c = "5" -> 53
    [] c = "6" -> 54
    [] c = "7" -> 55
    [] c = "8" -> 56
    [] c = "9" -> 57
    [] c = "@" -> 64
    [] c = "\\" -> 92
    [] OTHER -> 97 + (CHOOSE i \in 0..25 :
                      c = <<"a","b","c","d","e","f","g","h","i","j","k","l","m",
                            "n","o","p","q","r","s","t","u","v","w","x","y","z">>[i + 1])

\* s < t for two str, as Python compares them (lexicographic by ord)
RECURSIVE StrLess(_, _)
StrLess(s, t) ==
  IF t = <<>> THEN FALSE
  ELSE IF s = <<>> THEN TRUE
  ELSE IF Head(s) = Head(t) THEN StrLess(Tail(s), Tail(t))
  ELSE Ord(Head(s)) < Ord(Head(t))

\* insert x into the sorted list l, after the elements not greater than it
RECURSIVE Insert(_, _)
Insert(x, l) ==
  IF l = <<>> THEN <<x>>
  ELSE IF StrLess(x, Head(l)) THEN <<x>> \o l
  ELSE <<Head(l)>> \o Insert(x, Tail(l))

\* sorted(l) for a list of str
RECURSIVE Sorted(_)
Sorted(l) ==
  IF l = <<>> THEN <<>>
  ELSE Insert(l[Len(l)], Sorted(SubSeq(l, 1, Len(l) - 1)))

\* s.split(',') : the pieces between the commas, empty pieces kept
RECURSIVE SplitFrom(_, _)
SplitFrom(s, cur) ==
  IF s = <<>> THEN <<cur>>
  ELSE IF Head(s) = "," THEN <<cur>> \o SplitFrom(Tail(s), <<>>)
  ELSE SplitFrom(Tail(s), Append(cur, Head(s)))

Split(s) == SplitFrom(s, <<>>)

\* ','.join(l)
RECURSIVE Join(_)
Join(l) ==
  IF l = <<>> THEN <<>>
  ELSE IF Len(l) = 1 THEN l[1]
  ELSE l[1] \o <<",">> \o Join(Tail(l))

\* s starts with the str pat
StartsWith(s, pat) ==
  Len(s) >= Len(pat) /\ SubSeq(s, 1, Len(pat)) = pat

\* s.replace(pat, rep) : every non-overlapping occurrence, left to right
RECURSIVE Replace(_, _, _)
Replace(s, pat, rep) ==
  IF s = <<>> THEN <<>>
  ELSE IF StartsWith(s, pat)
       THEN rep \o Replace(SubSeq(s, Len(pat) + 1, Len(s)), pat, rep)
  ELSE <<Head(s)>> \o Replace(Tail(s), pat, rep)

\* int(s) for a str of decimal digits
RECURSIVE ParseInt(_)
ParseInt(s) ==
  IF s = <<>> THEN 0
  ELSE 10 * ParseInt(SubSeq(s, 1, Len(s) - 1)) + (Ord(s[Len(s)]) - 48)

\* str(n) for an int n >= 0
RECURSIVE IntToStr(_)
IntToStr(n) ==
  LET d == <<"0","1","2","3","4","5","6","7","8","9">>[(n % 10) + 1]
  IN IF n < 10 THEN <<d>> ELSE Append(IntToStr(n \div 10), d)

\* A Python value that is an int or a str
PyInt(n) == [kind |-> "int", n |-> n, s |-> <<>>]
PyStr(s) == [kind |-> "str", n |-> 0, s |-> s]

\* int(x)
ToInt(x) == IF x.kind = "int" THEN x ELSE PyInt(ParseInt(x.s))

\* x == y in Python 2 : an int never equals a str
PyEq(x, y) == x.kind = y.kind /\ x.n = y.n /\ x.s = y.s

\* the number a ttl denotes, whichever way it is represented
Seconds(x) == ToInt(x).n

\* float(x) for an int or a str of decimal digits
Float(x) == IF x.kind = "int" THEN x.n ELSE ParseInt(x.s)

(***************************************************************************)
(* The values the model draws its inputs and initial states from.          *)
(***************************************************************************)
Dot == <<".">>
ZoneZ == <<"z", ".">>
ZoneY == <<"y", ".">>
\* the wildcard name '*.' as the provider returns it: '\052.'
EscapedStar == <<"\\", "0", "5", "2", ".">>
NameA == <<"a", ".">>
ValA == <<"a">>
ValB == <<"b">>
HostedZonePrefix == <<"/", "h", "o", "s", "t", "e", "d", "z", "o", "n", "e", "/">>
IdZ == <<"Z", "1">>
IdY == <<"Y", "1">>
IdNew == <<"N", "1">>

\* value : None, a str, or a list of str
PyNone == [kind |-> "none", s |-> <<>>, l |-> <<>>]
StrValue(s) == [kind |-> "str", s |-> s, l |-> <<>>]
ListValue(l) == [kind |-> "list", s |-> <<>>, l |-> l]

\* argument_spec : state, its choices
States == {"list", "present", "absent"}
\* argument_spec : ttl, its default
DefaultTTL == 3600
\* argument_spec : retry_interval, its default
DefaultRetryInterval == 500

TTLInputs == {PyInt(DefaultTTL), PyInt(7200), PyStr(<<"7", "2", "0", "0">>)}
ValueInputs ==
  {PyNone, StrValue(<<>>), StrValue(<<"b", ",", "a">>), ListValue(<<ValA>>)}

\* module.params of a run on a record set
RecordParams ==
  [state : States, zone : {<<"z">>, ZoneZ}, vpc_id : {<<>>}, region : {<<>>},
   record : {<<"*">>, <<"*", ".">>}, type : {"", "A"}, ttl : TTLInputs,
   value : ValueInputs, overwrite : BOOLEAN,
   retry_interval : {PyInt(DefaultRetryInterval)}]

\* module.params of a run on the hosted zone (no record)
ZoneParams ==
  [state : States, zone : {<<"z">>, ZoneZ}, vpc_id : {<<>>, <<"v">>},
   region : {<<>>, <<"r">>}, record : {<<>>}, type : {""},
   ttl : {PyInt(DefaultTTL)}, value : {PyNone}, overwrite : {FALSE},
   retry_interval : {PyInt(DefaultRetryInterval)}]

\* runs on a record set that give retry_interval, as a str
IntervalParams ==
  {[p EXCEPT !.retry_interval = PyStr(<<"5">>)] :
     p \in {q \in RecordParams :
              /\ q.zone = ZoneZ
              /\ q.record = <<"*">>
              /\ q.type = "A"
              /\ q.ttl = PyInt(DefaultTTL)
              /\ q.value = ListValue(<<ValA>>)
              /\ q.overwrite}}

Params == RecordParams \cup IntervalParams \cup ZoneParams

\* the record sets a zone may hold when the run starts; boto returns ttl as str
RRSet(name, type, ttl, resource_records) ==
  [name |-> name, type |-> type, ttl |-> PyStr(ttl),
   resource_records |-> resource_records]

RRSetUniverse ==
  {RRSet(EscapedStar, "A", <<"3", "6", "0", "0">>, <<ValA>>),
   RRSet(EscapedStar, "A", <<"7", "2", "0", "0">>, <<ValA>>),
   RRSet(EscapedStar, "A", <<"7", "2", "0", "0">>, <<ValB, ValA>>),
   RRSet(NameA, "A", <<"7", "2", "0", "0">>, <<ValB, ValA>>),
   RRSet(EscapedStar, "TXT", <<"7", "2", "0", "0">>, <<ValB, ValA>>)}

RECURSIVE SeqsUpTo(_, _)
SeqsUpTo(S, n) ==
  IF n = 0 THEN {<<>>}
  ELSE LET shorter == SeqsUpTo(S, n - 1)
       IN shorter \cup {Append(q, x) : q \in {r \in shorter : Len(r) = n - 1}, x \in S}

HostedZoneY == [Name |-> ZoneY, Id |-> HostedZonePrefix \o IdY, Private |-> FALSE,
                VPCId |-> <<>>, VPCRegion |-> <<>>]
HostedZoneZ == [Name |-> ZoneZ, Id |-> HostedZonePrefix \o IdZ, Private |-> FALSE,
                VPCId |-> <<>>, VPCRegion |-> <<>>]
ZoneIds == {IdY, IdZ, IdNew}

NoResult == [kind |-> "none", keys |-> {}, changed |-> FALSE, msg |-> "",
             arg |-> <<>>, set |-> <<>>, id |-> <<>>]

VARIABLES
  hostedZones,  \* the provider: its hosted zones, in listing order
  rrsets,       \* the provider: zone id -> the zone's record sets, in listing order
  params,       \* module.params of the current run
  pc,           \* where the run is: "idle", "commit" (in commit's loop), "done"
  changes,      \* the ResourceRecordSets batch built by main
  retry,        \* commit's local retry
  calls,        \* the provider calls the current run has made, in order
  submitted,    \* the batches the current run has submitted, in order
  replies,      \* the provider's replies to those submissions
  sleeps,       \* the arguments of the time.sleep calls of the current run
  result,       \* what the run reported by exit_json or fail_json
  runs,         \* the number of runs started
  prev,         \* the previous run of the same call: its result and its batch
  atStart,      \* the provider's zones and record sets when the current run began
  input,        \* the arguments of a function of main() applied on its own
  output        \* what that function returned

vars == <<hostedZones, rrsets, params, pc, changes, retry, calls, submitted,
          replies, sleeps, result, runs, prev, atStart, input, output>>

(***************************************************************************)
(* The provider, as the run sees it through boto.                          *)
(***************************************************************************)
\* the provider's escaping of a record name: '*' is stored as \052, '@' as \100
EncodeName(name) ==
  Replace(Replace(name, <<"*">>, <<"\\", "0", "5", "2">>),
          <<"@">>, <<"\\", "1", "0", "0">>)

\* the elements of a list
Range(l) == {l[i] : i \in 1..Len(l)}

\* a DELETE entry names a stored record set exactly: name, type, ttl and values
Deletes(ch, rset) ==
  /\ rset.name = EncodeName(ch.name)
  /\ rset.type = ch.type
  /\ Seconds(rset.ttl) = Seconds(ch.ttl)
  /\ Len(ch.values) = Len(rset.resource_records)
  /\ Range(ch.values) = Range(rset.resource_records)

\* the list without its first element that satisfies Deletes(ch, _)
RECURSIVE RemoveFirst(_, _)
RemoveFirst(sets, ch) ==
  IF sets = <<>> THEN <<>>
  ELSE IF Deletes(ch, Head(sets)) THEN Tail(sets)
  ELSE <<Head(sets)>> \o RemoveFirst(Tail(sets), ch)

\* the provider applying one change entry to a zone's record sets
ApplyChange(acc, ch) ==
  IF ~acc.ok THEN acc
  ELSE IF ch.action = "DELETE"
  THEN IF \E i \in 1..Len(acc.sets) : Deletes(ch, acc.sets[i])
       THEN [ok |-> TRUE, sets |-> RemoveFirst(acc.sets, ch)]
       ELSE [ok |-> FALSE, sets |-> acc.sets]
  ELSE IF \/ ch.values = <<>>
          \/ \E i \in 1..Len(acc.sets) :
               /\ acc.sets[i].name = EncodeName(ch.name)
               /\ acc.sets[i].type = ch.type
       THEN [ok |-> FALSE, sets |-> acc.sets]
       ELSE [ok |-> TRUE,
             sets |-> Append(acc.sets,
                             [name |-> EncodeName(ch.name), type |-> ch.type,
                              ttl |-> PyStr(IntToStr(Seconds(ch.ttl))),
                              resource_records |-> ch.values])]

\* the provider applying a whole batch: every entry or none
RECURSIVE ApplyBatch(_, _)
ApplyBatch(acc, batch) ==
  IF batch = <<>> THEN acc
  ELSE ApplyBatch(ApplyChange(acc, Head(batch)), Tail(batch))

\* boto.route53.exception.DNSServerError : the <Code> and <Message> of its body
DNSServerError(code, message) == [Code |-> code, Message |-> message]

PriorRequestNotComplete ==
  DNSServerError("PriorRequestNotComplete",
                 "The request was rejected because Route 53 was still processing a prior request.")
InvalidChangeBatch ==
  DNSServerError("InvalidChangeBatch", "The request contains an invalid set of changes.")
Throttling == DNSServerError("Throttling", "Rate exceeded")

\* the replies the provider can give to the submission of a batch: the batch
\* is applied when it is valid, rejected when it is not, and at any time the
\* provider may be busy with a prior request or refuse for another reason
Replies(sets, batch) ==
  {PriorRequestNotComplete, Throttling}
  \cup (IF batch # <<>> /\ ApplyBatch([ok |-> TRUE, sets |-> sets], batch).ok
        THEN {DNSServerError("OK", "")}
        ELSE {InvalidChangeBatch})

(***************************************************************************)
(* main()                                                                  *)
(***************************************************************************)
\* s[-1:]
LastChar(s) == IF s = <<>> THEN <<>> ELSE <<s[Len(s)]>>

\* WithDot without the normalisation: the name is used as given
WithDotAsGiven(s) == s

\* WithDot appending the dot without looking at the last character
WithDotAlways(s) == s \o Dot

\* if s[-1:] != '.': s += "."
WithDot(s) == IF LastChar(s) # Dot THEN s \o Dot ELSE s

\* zone_id = r53zone['Id'].replace('/hostedzone/', '')
ZoneIdOf(r53zone) == Replace(r53zone.Id, HostedZonePrefix, <<>>)

\* zone_in in zones
InZones(hz, zone_in) == \E i \in 1..Len(hz) : hz[i].Name = zone_in

\* zones[zone_in] : a later zone of the listing overwrites an earlier one
ZonesGet(hz, zone_in) ==
  ZoneIdOf(hz[CHOOSE i \in 1..Len(hz) :
                /\ hz[i].Name = zone_in
                /\ \A j \in (i + 1)..Len(hz) : hz[j].Name # zone_in])

\* ValueList keeping a list in the order the caller wrote it
ValueListAsGiven(value_in) ==
  IF value_in.kind = "str"
  THEN IF value_in.s # <<>> THEN Sorted(Split(value_in.s)) ELSE <<>>
  ELSE IF value_in.kind = "list" THEN value_in.l
  ELSE <<>>

\* value_list
ValueList(value_in) ==
  IF value_in.kind = "str"
  THEN IF value_in.s # <<>> THEN Sorted(Split(value_in.s)) ELSE <<>>
  ELSE IF value_in.kind = "list" THEN Sorted(value_in.l)
  ELSE <<>>

\* NotValue as "value_in is None"
NotValueNoneOnly(value_in) == value_in.kind = "none"

\* not value_in
NotValue(value_in) ==
  \/ value_in.kind = "none"
  \/ value_in.kind = "str" /\ value_in.s = <<>>
  \/ value_in.kind = "list" /\ value_in.l = <<>>

\* DecodeName without the second replace
DecodeNameStarOnly(name) == Replace(name, <<"\\", "0", "5", "2">>, <<"*">>)

\* decoded_name
DecodeName(name) ==
  Replace(Replace(name, <<"\\", "0", "5", "2">>, <<"*">>),
          <<"\\", "1", "0", "0">>, <<"@">>)

\* rset.type == type_in and decoded_name == record_in
Matches(rset, type_in, record_in) ==
  rset.type = type_in /\ DecodeName(rset.name) = record_in

\* RecordOf without the sorting of the values
RecordOfUnsorted(rset, zone_in) ==
  [zone |-> zone_in, type |-> rset.type, record |-> DecodeName(rset.name),
   ttl |-> rset.ttl, value |-> Join(rset.resource_records),
   values |-> rset.resource_records]

\* the record dict filled from a matching rset
RecordOf(rset, zone_in) ==
  [zone |-> zone_in, type |-> rset.type, record |-> DecodeName(rset.name),
   ttl |-> rset.ttl, value |-> Join(Sorted(rset.resource_records)),
   values |-> Sorted(rset.resource_records)]

\* int(record['ttl']) == ttl_in
TTLEqual(record_ttl, ttl_in) == PyEq(ToInt(record_ttl), ttl_in)

\* the condition of the exit_json(changed=False) inside the loop
SameAsDesired(value_list, rset, ttl_in, state_in) ==
  /\ value_list = Sorted(rset.resource_records)
  /\ TTLEqual(rset.ttl, ttl_in)
  /\ state_in = "present"

\* Scan leaving the loop at the first record set that matches
RECURSIVE ScanFirstMatch(_, _, _)
ScanFirstMatch(sets, l, acc) ==
  IF sets = <<>> THEN acc
  ELSE LET rset == Head(sets)
       IN IF Matches(rset, l.type, l.record)
          THEN [found_record |-> TRUE, record |-> <<RecordOf(rset, l.zone)>>,
                exited |-> SameAsDesired(l.value_list, rset, l.ttl, l.state)]
          ELSE ScanFirstMatch(Tail(sets), l, acc)

\* for rset in sets: ... ; acc is (found_record, record, left by exit_json)
RECURSIVE Scan(_, _, _)
Scan(sets, l, acc) ==
  IF sets = <<>> THEN acc
  ELSE LET rset == Head(sets)
       IN IF Matches(rset, l.type, l.record)
          THEN IF SameAsDesired(l.value_list, rset, l.ttl, l.state)
               THEN [found_record |-> TRUE, record |-> <<RecordOf(rset, l.zone)>>,
                     exited |-> TRUE]
               ELSE Scan(Tail(sets), l,
                         [found_record |-> TRUE,
                          record |-> <<RecordOf(rset, l.zone)>>, exited |-> FALSE])
          ELSE Scan(Tail(sets), l, acc)

\* changes.add_change(action, name, type, ttl) and its add_value calls
Change(action, name, type, ttl, values) ==
  [action |-> action, name |-> name, type |-> type, ttl |-> ttl, values |-> values]

\* the DELETE entry of a replace
DeleteExisting(record_in, type_in, record) ==
  Change("DELETE", record_in, type_in, record.ttl, record.values)

\* command = 'CREATE' if state_in == 'present' else 'DELETE'
Command(state_in) == IF state_in = "present" THEN "CREATE" ELSE "DELETE"

\* the entry for the desired record
DesiredEntry(state_in, record_in, type_in, ttl_in, value_list) ==
  Change(Command(state_in), record_in, type_in, ttl_in, value_list)

\* module.exit_json(...) and module.fail_json(msg=...)
ExitJson(changed) ==
  [NoResult EXCEPT !.kind = "exit", !.keys = {"changed"}, !.changed = changed]
ExitJsonSet(changed, record) ==
  [NoResult EXCEPT !.kind = "exit", !.keys = {"changed", "set"},
                   !.changed = changed, !.set = record]
ExitJsonId(changed, id) ==
  [NoResult EXCEPT !.kind = "exit", !.keys = {"changed", "id"},
                   !.changed = changed, !.id = id]
FailJson(msg, arg) ==
  [NoResult EXCEPT !.kind = "fail", !.keys = {"failed", "msg"}, !.msg = msg,
                   !.arg = arg]

ZoneNotFoundMsg == "Zone %s does not exist in Route53"
TypeRequiredMsg == "parameter 'type' required when 'record' is provided"
ValueRequiredMsg ==
  "parameter 'value' required for present/absent when 'record' is provided"
ConflictMsg ==
  "Record already exists with different value. Set 'overwrite' to replace it"
RegionRequiredMsg == "parameter 'region' required when 'vpc_in' is provided"

\* retry = 10
RetryInit == 10

NoChanges == [hosted_zone_id |-> <<>>, changes |-> <<>>]

\* what main() has done when it returns or reaches commit()
Outcome(pcNext, res, chg, called, hz, rr) ==
  [pc |-> pcNext, result |-> res, changes |-> chg, calls |-> called,
   hostedZones |-> hz, rrsets |-> rr]

\* AbsentNoOp with the test of found_record reversed
AbsentNoOpWhenFound(state_in, found_record) == state_in = "absent" /\ found_record

\* if state_in == 'absent' and not found_record
AbsentNoOp(state_in, found_record) == state_in = "absent" /\ ~found_record

\* Conflict with the test of overwrite reversed
ConflictWhenOverwrite(state_in, found_record, overwrite) ==
  state_in = "present" /\ found_record /\ overwrite

\* if state_in == 'present' and found_record: if not module.params['overwrite']
Conflict(state_in, found_record, overwrite) ==
  state_in = "present" /\ found_record /\ ~overwrite

\* BuildChanges with the DELETE of a replace filled from the desired record
BuildChangesFromDesired(l, scan) ==
  (IF l.state = "present" /\ scan.found_record
   THEN <<Change("DELETE", l.record, l.type, l.ttl, l.value_list)>>
   ELSE <<>>)
  \o
  (IF l.state = "present" \/ l.state = "absent"
   THEN <<DesiredEntry(l.state, l.record, l.type, l.ttl, l.value_list)>>
   ELSE <<>>)

\* BuildChanges with the DELETE of an absent filled from the matched record
BuildChangesDeleteMatched(l, scan) ==
  (IF l.state = "present" /\ scan.found_record
   THEN <<DeleteExisting(l.record, l.type, scan.record[1])>>
   ELSE <<>>)
  \o
  (IF l.state = "present"
   THEN <<DesiredEntry(l.state, l.record, l.type, l.ttl, l.value_list)>>
   ELSE IF l.state = "absent"
   THEN <<DeleteExisting(l.record, l.type, scan.record[1])>>
   ELSE <<>>)

\* the entries added to changes between its construction and the commit
BuildChanges(l, scan) ==
  (IF l.state = "present" /\ scan.found_record
   THEN <<DeleteExisting(l.record, l.type, scan.record[1])>>
   ELSE <<>>)
  \o
  (IF l.state = "present" \/ l.state = "absent"
   THEN <<DesiredEntry(l.state, l.record, l.type, l.ttl, l.value_list)>>
   ELSE <<>>)

\* the branch "if record_in:" of main, from the zone lookup to the commit
RecordRun(p, hz, rr) ==
  LET zone_in == WithDot(p.zone)
      listed == <<"get_all_hosted_zones">>
  IN
  IF ~InZones(hz, zone_in)
  THEN Outcome("done", FailJson(ZoneNotFoundMsg, zone_in), NoChanges, listed, hz, rr)
  ELSE
  LET l == [state |-> p.state, zone |-> zone_in, record |-> WithDot(p.record),
            type |-> p.type, ttl |-> p.ttl, value_list |-> ValueList(p.value)]
  IN
  IF l.type = ""
  THEN Outcome("done", FailJson(TypeRequiredMsg, <<>>), NoChanges, listed, hz, rr)
  ELSE IF (l.state = "present" \/ l.state = "absent") /\ NotValue(p.value)
  THEN Outcome("done", FailJson(ValueRequiredMsg, <<>>), NoChanges, listed, hz, rr)
  ELSE
  LET zone_id == ZonesGet(hz, zone_in)
      called == Append(listed, "get_all_rrsets")
      scan == Scan(rr[zone_id], l,
                   [found_record |-> FALSE, record |-> <<>>, exited |-> FALSE])
  IN
  IF scan.exited
  THEN Outcome("done", ExitJson(FALSE), NoChanges, called, hz, rr)
  ELSE IF l.state = "list"
  THEN Outcome("done", ExitJsonSet(FALSE, scan.record), NoChanges, called, hz, rr)
  ELSE IF AbsentNoOp(l.state, scan.found_record)
  THEN Outcome("done", ExitJson(FALSE), NoChanges, called, hz, rr)
  ELSE IF Conflict(l.state, scan.found_record, p.overwrite)
  THEN Outcome("done", FailJson(ConflictMsg, <<>>),
               [hosted_zone_id |-> zone_id, changes |-> <<>>], called, hz, rr)
  ELSE Outcome("commit", NoResult,
               [hosted_zone_id |-> zone_id, changes |-> BuildChanges(l, scan)],
               called, hz, rr)

\* an id the provider gives to a new hosted zone
FreshId(hz) ==
  CHOOSE id \in {IdNew, IdZ, IdY} :
    /\ \A i \in 1..Len(hz) : ZoneIdOf(hz[i]) # id
    /\ id # IdNew => \E i \in 1..Len(hz) : ZoneIdOf(hz[i]) = IdNew

\* CreateZone with the VPC id and the region in each other's place
CreateZoneSwapped(hz, name, private, vpc_id, region) ==
  Append(hz, [Name |-> name, Id |-> HostedZonePrefix \o FreshId(hz),
              Private |-> private, VPCId |-> region, VPCRegion |-> vpc_id])

\* conn.create_zone(zone_in, private, vpc_id, region) at the provider
CreateZone(hz, name, private, vpc_id, region) ==
  Append(hz, [Name |-> name, Id |-> HostedZonePrefix \o FreshId(hz),
              Private |-> private, VPCId |-> vpc_id, VPCRegion |-> region])

\* conn.delete_hosted_zone(zone_id) at the provider
RECURSIVE DeleteHostedZone(_, _)
DeleteHostedZone(hz, zone_id) ==
  IF hz = <<>> THEN <<>>
  ELSE IF ZoneIdOf(Head(hz)) = zone_id THEN DeleteHostedZone(Tail(hz), zone_id)
  ELSE <<Head(hz)>> \o DeleteHostedZone(Tail(hz), zone_id)

\* ZoneOther answering a state that is neither present nor absent as a no-op
\* when the zone exists
ZoneOtherWhenMissing(hz, zone_in) ==
  IF InZones(hz, zone_in) THEN ExitJson(FALSE) ELSE FailJson(ZoneNotFoundMsg, zone_in)

\* the last else of the operation on the hosted zone: module.fail_json(msg=errmsg)
ZoneOther(hz, zone_in) == FailJson(ZoneNotFoundMsg, zone_in)

\* the else branch of "if record_in:" : the operation on the hosted zone
ZoneRun(p, hz, rr) ==
  LET zone_in == WithDot(p.zone)
      listed == <<"get_all_hosted_zones">>
  IN
  IF p.state = "present"
  THEN IF InZones(hz, zone_in)
       THEN Outcome("done", ExitJson(FALSE), NoChanges, listed, hz, rr)
       ELSE IF p.vpc_id # <<>>
       THEN IF p.region # <<>>
            THEN LET hz2 == CreateZone(hz, zone_in, TRUE, p.vpc_id, p.region)
                 IN Outcome("done", ExitJsonId(TRUE, hz2[Len(hz2)].Id), NoChanges,
                            Append(listed, "create_zone"), hz2, rr)
            ELSE Outcome("done", FailJson(RegionRequiredMsg, <<>>), NoChanges,
                         listed, hz, rr)
       ELSE LET hz2 == CreateZone(hz, zone_in, FALSE, <<>>, <<>>)
            IN Outcome("done", ExitJsonId(TRUE, hz2[Len(hz2)].Id), NoChanges,
                       Append(listed, "create_zone"), hz2, rr)
  ELSE IF p.state = "absent"
  THEN IF InZones(hz, zone_in)
       THEN LET zone_id == ZonesGet(hz, zone_in)
            IN Outcome("done", ExitJson(TRUE), NoChanges,
                       Append(listed, "delete_hosted_zone"),
                       DeleteHostedZone(hz, zone_id),
                       [rr EXCEPT ![zone_id] = <<>>])
       ELSE Outcome("done", ExitJson(FALSE), NoChanges, listed, hz, rr)
  ELSE Outcome("done", ZoneOther(hz, zone_in), NoChanges, listed, hz, rr)

\* main() up to its end or to its call of commit()
MainOutcome(p, hz, rr) ==
  IF p.record # <<>> THEN RecordRun(p, hz, rr) ELSE ZoneRun(p, hz, rr)

\* Raises with the budget test off by one: gives up when retry reaches 0
RaisesAtZero(code, r) == code # "PriorRequestNotComplete" \/ r <= 0

\* Raises with the budget test reversed: gives up while retries are left
RaisesWhileLeft(code, r) == code # "PriorRequestNotComplete" \/ r > 0

\* Raises without the test of the error code: every error is retried
RaisesOnBudgetOnly(code, r) == r < 0

\* if code != 'PriorRequestNotComplete' or retry < 0: raise e
Raises(code, r) == code # "PriorRequestNotComplete" \/ r < 0

(***************************************************************************)
(* The state machine.                                                      *)
(***************************************************************************)
NoParams ==
  [state |-> "", zone |-> <<>>, vpc_id |-> <<>>, region |-> <<>>, record |-> <<>>,
   type |-> "", ttl |-> PyInt(DefaultTTL), value |-> PyNone, overwrite |-> FALSE,
   retry_interval |-> PyInt(DefaultRetryInterval)]

NoPrev == [ran |-> FALSE, result |-> NoResult, changes |-> NoChanges]

NoInput == [kind |-> "none"]
NoOutput == [kind |-> "none"]

\* no run has begun
NotStarted ==
  /\ params = NoParams
  /\ pc = "idle"
  /\ changes = NoChanges
  /\ retry = RetryInit
  /\ calls = <<>>
  /\ submitted = <<>>
  /\ replies = <<>>
  /\ sleeps = <<>>
  /\ result = NoResult
  /\ runs = 0
  /\ prev = NoPrev
  /\ atStart = [hostedZones |-> hostedZones, rrsets |-> rrsets]

Init ==
  /\ \E withZ \in BOOLEAN, sets \in SeqsUpTo(RRSetUniverse, MaxSets) :
       /\ hostedZones = IF withZ THEN <<HostedZoneZ, HostedZoneY>> ELSE <<HostedZoneY>>
       /\ withZ \/ sets = <<>>
       /\ rrsets = [id \in ZoneIds |-> IF id = IdZ THEN sets ELSE <<>>]
  /\ NotStarted
  /\ input = NoInput
  /\ output = NoOutput

\* one call of main() with module.params p, up to its end or to commit()
Main(p) ==
  LET out == MainOutcome(p, hostedZones, rrsets)
  IN /\ params' = p
     /\ pc' = out.pc
     /\ result' = out.result
     /\ changes' = out.changes
     /\ calls' = out.calls
     /\ hostedZones' = out.hostedZones
     /\ rrsets' = out.rrsets
     /\ retry' = RetryInit
     /\ submitted' = <<>>
     /\ replies' = <<>>
     /\ sleeps' = <<>>
     /\ runs' = runs + 1
     /\ prev' = [ran |-> runs > 0, result |-> result, changes |-> changes]
     /\ atStart' = [hostedZones |-> hostedZones, rrsets |-> rrsets]
     /\ UNCHANGED <<input, output>>

\* the first run, with any parameters
Run ==
  /\ pc = "idle"
  /\ \E p \in Params : Main(p)

\* the identical call run again after a run that ended by exit_json (a run
\* that failed has left the provider as it was, so running it again is the
\* first run once more)
Rerun ==
  /\ pc = "done"
  /\ result.kind = "exit"
  /\ runs < MaxRuns
  /\ Main(params)

\* CommitFailed with the error dropped, the run going on to its last line
CommitFailedIgnored(e) == ExitJson(TRUE)

\* except boto.route53.exception.DNSServerError, e: ... module.fail_json(msg = txt)
CommitFailed(e) == FailJson(e.Message, <<>>)

\* one iteration of commit()'s loop: a submission, then return, raise or sleep
Commit ==
  /\ pc = "commit"
  /\ \E e \in Replies(rrsets[changes.hosted_zone_id], changes.changes) :
       /\ retry' = retry - 1
       /\ calls' = Append(calls, "commit")
       /\ submitted' = Append(submitted, changes.changes)
       /\ replies' = Append(replies, e)
       /\ IF e.Code = "OK"
          THEN /\ rrsets' = [rrsets EXCEPT ![changes.hosted_zone_id] =
                               ApplyBatch([ok |-> TRUE, sets |-> @], changes.changes).sets]
               /\ result' = ExitJson(TRUE)
               /\ pc' = "done"
               /\ sleeps' = sleeps
          ELSE IF Raises(e.Code, retry')
          THEN /\ result' = CommitFailed(e)
               /\ pc' = "done"
               /\ UNCHANGED <<rrsets, sleeps>>
          ELSE /\ sleeps' = Append(sleeps, Float(params.retry_interval))
               /\ UNCHANGED <<rrsets, result, pc>>
  /\ UNCHANGED <<hostedZones, params, changes, runs, prev, atStart, input, output>>

Next == Run \/ Rerun \/ Commit

Spec == Init /\ [][Next]_vars

(***************************************************************************)
(* The functions of main() that compute without the provider, each applied *)
(* on its own to arguments drawn from bounded sets.                        *)
(***************************************************************************)
MaxLen == 3
MaxPieces == 3

\* the values a caller or a record set may hold
Values == {ValA, ValB, <<"a", "b">>}

EscStar == <<"\\", "0", "5", "2">>
EscAt == <<"\\", "1", "0", "0">>

\* what record names are made of
NamePieces == {EscStar, EscAt, <<"*">>, <<"@">>, <<"a">>, <<".">>, <<"\\">>}

\* the pieces of a name, one after the other
RECURSIVE Flatten(_)
Flatten(pieces) ==
  IF pieces = <<>> THEN <<>> ELSE Head(pieces) \o Flatten(Tail(pieces))

\* value_in as a comma-delimited str of the values l1 and as the list l2
ValueArgs ==
  [kind : {"values"}, l1 : SeqsUpTo(Values, MaxLen), l2 : SeqsUpTo(Values, MaxLen),
   ttl : {PyInt(DefaultTTL)}]

\* rset.name, as its pieces
NameArgs == [kind : {"name"}, pieces : SeqsUpTo(NamePieces, MaxPieces)]

\* record['ttl'] and ttl_in, each as an int or as a str
TTLArgs ==
  [kind : {"ttl"},
   stored : TTLInputs \cup {r.ttl : r \in RRSetUniverse},
   desired : TTLInputs \cup {r.ttl : r \in RRSetUniverse}]

InitFunctions ==
  /\ hostedZones = <<HostedZoneY>>
  /\ rrsets = [id \in ZoneIds |-> <<>>]
  /\ NotStarted
  /\ input \in ValueArgs \cup NameArgs \cup TTLArgs
  /\ output = NoOutput

\* value_list of the str and of the list, value_list of a value_list, and the
\* comparison of the str's value_list with a record set holding the list
Normalise ==
  /\ input.kind = "values"
  /\ output.kind = "none"
  /\ LET a == ValueList(StrValue(Join(input.l1)))
         b == ValueList(ListValue(input.l2))
         rset == [name |-> NameA, type |-> "A", ttl |-> PyStr(IntToStr(input.ttl.n)),
                  resource_records |-> input.l2]
     IN output' = [kind |-> "values", a |-> a, b |-> b,
                   again |-> ValueList(ListValue(a)),
                   same |-> SameAsDesired(a, rset, input.ttl, "present")]
  /\ UNCHANGED <<hostedZones, rrsets, params, pc, changes, retry, calls, submitted,
                 replies, sleeps, result, runs, prev, atStart, input>>

\* decoded_name of a name, and whether a record set of that name matches
\* the name written with the literal characters
Decode ==
  /\ input.kind = "name"
  /\ output.kind = "none"
  /\ LET name == Flatten(input.pieces)
         literal == Flatten([i \in 1..Len(input.pieces) |->
                      IF input.pieces[i] = EscStar THEN <<"*">>
                      ELSE IF input.pieces[i] = EscAt THEN <<"@">>
                      ELSE input.pieces[i]])
         rset == [name |-> name, type |-> "A", ttl |-> PyStr(IntToStr(DefaultTTL)),
                  resource_records |-> <<ValA>>]
     IN output' = [kind |-> "name", name |-> name, literal |-> literal,
                   decoded |-> DecodeName(name),
                   matches |-> Matches(rset, "A", literal)]
  /\ UNCHANGED <<hostedZones, rrsets, params, pc, changes, retry, calls, submitted,
                 replies, sleeps, result, runs, prev, atStart, input>>

\* int(record['ttl']) == ttl_in
CompareTTL ==
  /\ input.kind = "ttl"
  /\ output.kind = "none"
  /\ output' = [kind |-> "ttl", equal |-> TTLEqual(input.stored, input.desired)]
  /\ UNCHANGED <<hostedZones, rrsets, params, pc, changes, retry, calls, submitted,
                 replies, sleeps, result, runs, prev, atStart, input>>

NextFunctions == Normalise \/ Decode \/ CompareTTL

SpecFunctions == InitFunctions /\ [][NextFunctions]_vars

(***************************************************************************)
(* Vocabulary of the properties, stated without the operators of main().   *)
(***************************************************************************)
\* a name in its trailing-dot form
NormalName(z) == IF z # <<>> /\ z[Len(z)] = "." THEN z ELSE z \o <<".">>

\* the number of times x occurs in the list l
Count(l, x) == Cardinality({i \in 1..Len(l) : l[i] = x})

\* two lists hold the same values, in any order
SameValues(a, b) ==
  Len(a) = Len(b) /\ \A x \in Range(a) \cup Range(b) : Count(a, x) = Count(b, x)

\* a list of str is in ascending order
IsSorted(l) == \A i \in 1..Len(l) : \A j \in (i + 1)..Len(l) : ~StrLess(l[j], l[i])

\* the values the caller asks for, as the caller wrote them
DesiredValues ==
  IF params.value.kind = "str"
  THEN IF params.value.s = <<>> THEN <<>> ELSE Split(params.value.s)
  ELSE params.value.l

\* the run is on a record set / on the hosted zone
RecordLevel == pc # "idle" /\ params.record # <<>>
ZoneLevel == pc # "idle" /\ params.record = <<>>

\* the zone of the run existed at the provider when the run began
ZoneAtStart ==
  \E i \in 1..Len(atStart.hostedZones) :
    atStart.hostedZones[i].Name = NormalName(params.zone)

\* the record sets of the run's zone when the run began
SetsAtStart ==
  IF ZoneAtStart
  THEN atStart.rrsets[ZonesGet(atStart.hostedZones, NormalName(params.zone))]
  ELSE <<>>

\* the record sets with the desired name and type when the run began
MatchingAtStart ==
  LET sets == SetsAtStart
      record == NormalName(params.record)
  IN {i \in 1..Len(sets) :
        /\ sets[i].type = params.type
        /\ DecodeName(sets[i].name) = record}

\* a record set has the desired ttl (as a number of seconds) and values
EqualsDesired(rset) ==
  /\ Seconds(rset.ttl) = Seconds(params.ttl)
  /\ SameValues(rset.resource_records, DesiredValues)

\* the run got past the validation of type and value
Validated ==
  /\ params.type # ""
  /\ params.state \in {"present", "absent"} => DesiredValues # <<>>

\* the provider is as it was when the run began
ProviderUntouched ==
  /\ hostedZones = atStart.hostedZones
  /\ rrsets = atStart.rrsets

\* the retry interval the caller asks for, in seconds
IntervalSeconds == Seconds(params.retry_interval)

\* every reply of the provider so far was the transient error
AllTransient == \A i \in 1..Len(replies) : replies[i] = PriorRequestNotComplete

(***************************************************************************)
(* commit()                                                                *)
(***************************************************************************)
\* C1 as stated: when every submission of the batch fails with the transient
\* error, commit never makes an 11th submission and ends in failure after
\* exactly 10 submissions.
C1_TenAttempts ==
  (replies # <<>> /\ AllTransient) =>
    /\ Len(submitted) <= 10
    /\ pc = "done" => Len(submitted) = 10

\* C1 amended: when every submission of the batch fails with the transient
\* error, commit goes on until it has made 11 submissions (the first one and
\* 10 retries, with 10 sleeps between them), never makes a 12th, and then the
\* run fails with the provider's error.
C1_ElevenAttempts ==
  (replies # <<>> /\ AllTransient) =>
    /\ Len(submitted) <= 11
    /\ Len(submitted) < 11 => pc = "commit" /\ Len(sleeps) = Len(submitted)
    /\ Len(submitted) = 11 =>
         /\ pc = "done"
         /\ Len(sleeps) = 10
         /\ result = FailJson(PriorRequestNotComplete.Message, <<>>)

C1_Witness ==
  /\ pc = "done"
  /\ Len(submitted) = 11
  /\ AllTransient
  /\ result.kind = "fail"

\* C2: for every N < 10, when the first N submissions fail with the transient
\* error the N+1st submission is made, and when it is accepted the run ends
\* with success after exactly N sleeps of retry_interval and N+1 submissions.
C2_RetrySuccess ==
  \A N \in 0..9 :
    /\ (Len(replies) = N /\ AllTransient /\ N > 0) =>
         /\ pc = "commit"
         /\ sleeps = [i \in 1..N |-> IntervalSeconds]
    /\ (/\ Len(replies) = N + 1
        /\ replies[N + 1].Code = "OK"
        /\ \A i \in 1..N : replies[i] = PriorRequestNotComplete) =>
         /\ pc = "done"
         /\ result = ExitJson(TRUE)
         /\ sleeps = [i \in 1..N |-> IntervalSeconds]
         /\ Len(submitted) = N + 1
         /\ \A i \in 1..(N + 1) : submitted[i] = changes.changes

C2_Witness ==
  /\ Len(replies) = 10
  /\ replies[10].Code = "OK"
  /\ \A i \in 1..9 : replies[i] = PriorRequestNotComplete
  /\ sleeps = [i \in 1..9 |-> 5]
  /\ result = ExitJson(TRUE)

\* C3: a submission that fails with another error than the transient one ends
\* commit at once: the run fails with that error, there is no sleep and no
\* submission after it, and every submission before it failed with the
\* transient error; on the first attempt that is one submission, no sleep.
C3_OnlyTransientRetried ==
  \A i \in 1..Len(replies) :
    replies[i].Code \notin {"OK", "PriorRequestNotComplete"} =>
      /\ i = Len(replies)
      /\ pc = "done"
      /\ result = FailJson(replies[i].Message, <<>>)
      /\ Len(submitted) = i
      /\ Len(sleeps) = i - 1
      /\ \A j \in 1..(i - 1) : replies[j] = PriorRequestNotComplete

C3_Witness ==
  /\ pc = "done"
  /\ Len(replies) = 3
  /\ replies[3] = Throttling
  /\ replies[1] = PriorRequestNotComplete
  /\ Len(sleeps) = 2

(***************************************************************************)
(* main() on a record set                                                  *)
(***************************************************************************)
\* C4: a Present run on a zone that holds a record set with the desired name
\* and type, the desired ttl and the desired values (in any order) ends with
\* changed=false and submits no batch.
C4_PresentNoOp ==
  (/\ RecordLevel
   /\ params.state = "present"
   /\ \E i \in MatchingAtStart : EqualsDesired(SetsAtStart[i])) =>
    /\ pc = "done"
    /\ result = ExitJson(FALSE)
    /\ submitted = <<>>

\* C5: a Present run with overwrite false that gives the desired type and
\* values, on a zone whose record set of the desired name and type differs
\* from the desired one in ttl or values (no such record set equals the
\* desired one), fails with the conflict error, submits no batch and leaves
\* the provider as it was.
C5_PresentConflict ==
  (/\ RecordLevel
   /\ params.state = "present"
   /\ Validated
   /\ ~params.overwrite
   /\ MatchingAtStart # {}
   /\ \A i \in MatchingAtStart : ~EqualsDesired(SetsAtStart[i])) =>
    /\ pc = "done"
    /\ result = FailJson(ConflictMsg, <<>>)
    /\ changes.changes = <<>>
    /\ submitted = <<>>
    /\ ProviderUntouched

C5_Witness ==
  /\ RecordLevel
  /\ params.state = "present"
  /\ Validated
  /\ ~params.overwrite
  /\ \E i \in MatchingAtStart :
       /\ Seconds(SetsAtStart[i].ttl) = Seconds(params.ttl)
       /\ ~SameValues(SetsAtStart[i].resource_records, DesiredValues)
  /\ \A i \in MatchingAtStart : ~EqualsDesired(SetsAtStart[i])
  /\ result = FailJson(ConflictMsg, <<>>)

\* C6: a Present run with overwrite true that gives the desired type and
\* values, on a zone whose record set of the desired name and type differs
\* from the desired one in ttl or values, builds one batch of
\* two entries: first a DELETE with the ttl and values of an existing record
\* set of that name and type, then a CREATE with the desired ttl and values;
\* every submission of the run carries both entries, and the provider holds
\* either what it held before or the result of both.
C6_PresentReplace ==
  (/\ RecordLevel
   /\ params.state = "present"
   /\ Validated
   /\ params.overwrite
   /\ MatchingAtStart # {}
   /\ \A i \in MatchingAtStart : ~EqualsDesired(SetsAtStart[i])) =>
    LET batch == changes.changes
    IN /\ Len(batch) = 2
       /\ batch[1].action = "DELETE"
       /\ batch[1].name = NormalName(params.record)
       /\ batch[1].type = params.type
       /\ \E i \in MatchingAtStart :
            /\ batch[1].ttl = SetsAtStart[i].ttl
            /\ SameValues(batch[1].values, SetsAtStart[i].resource_records)
       /\ batch[2].action = "CREATE"
       /\ batch[2].name = NormalName(params.record)
       /\ batch[2].type = params.type
       /\ batch[2].ttl = params.ttl
       /\ SameValues(batch[2].values, DesiredValues)
       /\ \A k \in 1..Len(submitted) : submitted[k] = batch
       /\ \/ ProviderUntouched
          \/ /\ result = ExitJson(TRUE)
             /\ \E k \in 1..Len(SetsAtStart) :
                  /\ k \in MatchingAtStart
                  /\ batch[1].ttl = SetsAtStart[k].ttl
                  /\ Len(rrsets[changes.hosted_zone_id]) = Len(SetsAtStart)
                  /\ EqualsDesired(rrsets[changes.hosted_zone_id][Len(SetsAtStart)])

C6_Witness ==
  /\ RecordLevel
  /\ params.state = "present"
  /\ params.overwrite
  /\ \A i \in MatchingAtStart : ~EqualsDesired(SetsAtStart[i])
  /\ Len(changes.changes) = 2
  /\ Seconds(changes.changes[1].ttl) # Seconds(changes.changes[2].ttl)
  /\ ~SameValues(changes.changes[1].values, changes.changes[2].values)
  /\ result = ExitJson(TRUE)
  /\ ~ProviderUntouched

\* C7 as stated: an Absent run on a zone where no record set has the desired
\* name and type ends with changed=false and submits no batch.
C7_AbsentNoOp ==
  (/\ RecordLevel
   /\ params.state = "absent"
   /\ ZoneAtStart
   /\ params.type # ""
   /\ MatchingAtStart = {}) =>
    /\ pc = "done"
    /\ result = ExitJson(FALSE)
    /\ submitted = <<>>

\* C7 amended: an Absent run that gives a type and a non-empty value, on a
\* zone where no record set has the desired name and type, ends with
\* changed=false, submits no batch and leaves the provider as it was.
C7_AbsentNoOpValidated ==
  (/\ RecordLevel
   /\ params.state = "absent"
   /\ ZoneAtStart
   /\ Validated
   /\ MatchingAtStart = {}) =>
    /\ pc = "done"
    /\ result = ExitJson(FALSE)
    /\ changes.changes = <<>>
    /\ submitted = <<>>
    /\ ProviderUntouched

C7_Witness ==
  /\ RecordLevel
  /\ params.state = "absent"
  /\ ZoneAtStart
  /\ Validated
  /\ MatchingAtStart = {}
  /\ SetsAtStart # <<>>
  /\ result = ExitJson(FALSE)

\* C8: a Present run on a zone with no record set of the desired name and
\* type submits a batch with a single CREATE entry and reports changed=true
\* when the provider accepts it; the identical call run again after that
\* reports changed=false and submits no batch.
C8_PresentIdempotent ==
  /\ (/\ RecordLevel
      /\ params.state = "present"
      /\ ZoneAtStart
      /\ Validated
      /\ MatchingAtStart = {}) =>
       /\ Len(changes.changes) = 1
       /\ changes.changes[1].action = "CREATE"
       /\ \A k \in 1..Len(submitted) : submitted[k] = changes.changes
       /\ (replies # <<>> /\ replies[Len(replies)].Code = "OK") =>
            result = ExitJson(TRUE)
  /\ (/\ RecordLevel
      /\ params.state = "present"
      /\ prev.ran
      /\ prev.result = ExitJson(TRUE)
      /\ Len(prev.changes.changes) = 1
      /\ prev.changes.changes[1].action = "CREATE") =>
       /\ pc = "done"
       /\ result = ExitJson(FALSE)
       /\ submitted = <<>>

\* C9: a List run that gives a type, on a zone that exists, reports
\* changed=false with a set, submits no batch and leaves the provider as it
\* was; the set is empty when no record set has the desired name and type,
\* and otherwise mirrors such a record set: its zone, type, decoded name and
\* ttl, its values in ascending order, and value their comma-join.
C9_ListReadOnly ==
  (/\ RecordLevel
   /\ params.state = "list"
   /\ params.type # ""
   /\ ZoneAtStart) =>
    /\ pc = "done"
    /\ result.kind = "exit"
    /\ result.keys = {"changed", "set"}
    /\ result.changed = FALSE
    /\ submitted = <<>>
    /\ changes.changes = <<>>
    /\ ProviderUntouched
    /\ MatchingAtStart = {} => result.set = <<>>
    /\ MatchingAtStart # {} =>
         /\ Len(result.set) = 1
         /\ \E i \in MatchingAtStart :
              LET rset == SetsAtStart[i]
                  set == result.set[1]
              IN /\ set.zone = NormalName(params.zone)
                 /\ set.type = params.type
                 /\ set.record = NormalName(params.record)
                 /\ set.ttl = rset.ttl
                 /\ SameValues(set.values, rset.resource_records)
                 /\ IsSorted(set.values)
                 /\ Split(set.value) = set.values

C9_Witness ==
  /\ RecordLevel
  /\ params.state = "list"
  /\ params.value = PyNone
  /\ Len(result.set) = 1
  /\ result.set[1].values = <<ValA, ValB>>
  /\ result.set[1].value = <<"a", ",", "b">>
  /\ \E i \in MatchingAtStart : SetsAtStart[i].resource_records = <<ValB, ValA>>

(***************************************************************************)
(* main() on the hosted zone                                               *)
(***************************************************************************)
\* the run made no call that changes the provider, and the provider is as it was
NoMutation ==
  /\ calls = <<"get_all_hosted_zones">>
  /\ ProviderUntouched

\* the run made exactly one create call, which added the zone
CreatedOnce ==
  /\ calls = <<"get_all_hosted_zones", "create_zone">>
  /\ Len(hostedZones) = Len(atStart.hostedZones) + 1
  /\ SubSeq(hostedZones, 1, Len(atStart.hostedZones)) = atStart.hostedZones
  /\ hostedZones[Len(hostedZones)].Name = NormalName(params.zone)
  /\ rrsets = atStart.rrsets

\* the run made exactly one delete call, which removed the zone
DeletedOnce ==
  /\ calls = <<"get_all_hosted_zones", "delete_hosted_zone">>
  /\ Len(hostedZones) = Len(atStart.hostedZones) - 1
  /\ \A i \in 1..Len(hostedZones) : hostedZones[i].Name # NormalName(params.zone)

\* C10 as stated: with no record given, Present creates the zone by exactly
\* one create call and reports changed=true if its normalized name is not
\* among the provider's zones, and otherwise changes nothing and reports
\* changed=false; Absent deletes the zone by exactly one delete call (and no
\* other mutation) and reports changed=true if it is present, and otherwise
\* changes nothing and reports changed=false.
C10_ZoneReconciled ==
  /\ (ZoneLevel /\ params.state = "present") =>
       /\ pc = "done"
       /\ IF ZoneAtStart
          THEN NoMutation /\ result = ExitJson(FALSE)
          ELSE CreatedOnce /\ result.kind = "exit" /\ result.changed
  /\ (ZoneLevel /\ params.state = "absent") =>
       /\ pc = "done"
       /\ IF ZoneAtStart
          THEN DeletedOnce /\ result = ExitJson(TRUE)
          ELSE NoMutation /\ result = ExitJson(FALSE)

\* C10 amended: as C10, except that a Present run for a zone that is not
\* among the provider's zones, given a VPC id and no region, fails with the
\* 'region required' error and changes nothing.
C10_ZoneReconciledUnlessNoRegion ==
  /\ (ZoneLevel /\ params.state = "present") =>
       /\ pc = "done"
       /\ IF ZoneAtStart
          THEN NoMutation /\ result = ExitJson(FALSE)
          ELSE IF params.vpc_id # <<>> /\ params.region = <<>>
          THEN NoMutation /\ result = FailJson(RegionRequiredMsg, <<>>)
          ELSE /\ CreatedOnce
               /\ result = ExitJsonId(TRUE, hostedZones[Len(hostedZones)].Id)
  /\ (ZoneLevel /\ params.state = "absent") =>
       /\ pc = "done"
       /\ IF ZoneAtStart
          THEN DeletedOnce /\ result = ExitJson(TRUE)
          ELSE NoMutation /\ result = ExitJson(FALSE)

C10_WitnessCreated ==
  /\ ZoneLevel
  /\ params.state = "present"
  /\ params.zone = <<"z">>
  /\ ~ZoneAtStart
  /\ CreatedOnce

\* C11: a run with no record given and intent List fails with the 'zone does
\* not exist' error, whether or not the zone exists at the provider, and
\* makes no provider mutation.
C11_ZoneListUnsupported ==
  (ZoneLevel /\ params.state = "list") =>
    /\ pc = "done"
    /\ result = FailJson(ZoneNotFoundMsg, NormalName(params.zone))
    /\ NoMutation

C11_Witness ==
  /\ ZoneLevel
  /\ params.state = "list"
  /\ ZoneAtStart
  /\ result.kind = "fail"
  /\ result.msg = ZoneNotFoundMsg

\* the zone the run has added to the provider's zones
Created == hostedZones[Len(hostedZones)]

\* C12: a Present run with no record given, for a zone that is not among the
\* provider's zones: with a VPC id and no region it fails with the 'region
\* required' error and creates nothing; with a VPC id and a region it creates
\* the zone as private with that VPC id and region; with no VPC id it creates
\* a public zone.
C12_PrivateZoneNeedsRegion ==
  (ZoneLevel /\ params.state = "present" /\ ~ZoneAtStart) =>
    /\ pc = "done"
    /\ (params.vpc_id # <<>> /\ params.region = <<>>) =>
         /\ result = FailJson(RegionRequiredMsg, <<>>)
         /\ NoMutation
    /\ (params.vpc_id # <<>> /\ params.region # <<>>) =>
         /\ CreatedOnce
         /\ Created.Private
         /\ Created.VPCId = params.vpc_id
         /\ Created.VPCRegion = params.region
         /\ result = ExitJsonId(TRUE, Created.Id)
    /\ params.vpc_id = <<>> =>
         /\ CreatedOnce
         /\ ~Created.Private
         /\ Created.VPCId = <<>>
         /\ Created.VPCRegion = <<>>
         /\ result = ExitJsonId(TRUE, Created.Id)

C12_Witness ==
  /\ ZoneLevel
  /\ params.state = "present"
  /\ ~ZoneAtStart
  /\ params.vpc_id = <<"v">>
  /\ params.region = <<"r">>
  /\ CreatedOnce
  /\ Created.Private
  /\ Created.VPCId = <<"v">>

\* C13: the normalisation of the desired values does not depend on their
\* order and changes nothing in a normalised list: a comma-delimited str and
\* a list of the same values in any order give the same sorted list, the
\* value_list of a value_list is that value_list, and the comparison with a
\* record set's values holds whenever the two hold the same values, in
\* whatever order either is written.
C13_NormalisationOrderFree ==
  (input.kind = "values" /\ output.kind = "values") =>
    /\ IsSorted(output.a) /\ SameValues(output.a, input.l1)
    /\ IsSorted(output.b) /\ SameValues(output.b, input.l2)
    /\ SameValues(input.l1, input.l2) => output.a = output.b
    /\ output.again = output.a
    /\ output.same <=> SameValues(input.l1, input.l2)

C13_Witness ==
  /\ input.kind = "values"
  /\ input.l1 = <<ValB, <<"a", "b">>, ValA>>
  /\ input.l2 = <<<<"a", "b">>, ValA, ValB>>
  /\ output.kind = "values"
  /\ output.a = <<ValA, <<"a", "b">>, ValB>>
  /\ output.same

\* C14: decoding a record set's name turns every \052 into '*' and every
\* \100 into '@' and leaves the rest of the name as it is, so a name with
\* neither escape is returned unchanged, and a record set stored under the
\* escaped name matches the name written with the literal characters.
C14_NameDecoding ==
  (input.kind = "name" /\ output.kind = "name") =>
    /\ output.decoded = output.literal
    /\ (\A i \in 1..Len(input.pieces) : input.pieces[i] \notin {EscStar, EscAt}) =>
         output.decoded = output.name
    /\ output.matches

C14_Witness ==
  /\ input.kind = "name"
  /\ input.pieces = <<EscAt, <<".">>, EscStar>>
  /\ output.kind = "name"
  /\ output.decoded = <<"@", ".", "*">>
  /\ output.matches

\* the first and the last record set with the desired name and type, in
\* listing order, when the run began
FirstMatching ==
  LET m == MatchingAtStart
  IN SetsAtStart[CHOOSE i \in m : \A j \in m : i <= j]
LastMatching ==
  LET m == MatchingAtStart
  IN SetsAtStart[CHOOSE i \in m : \A j \in m : i >= j]

\* the run is one for which record sets are matched: on a record, with a type
\* and values that pass the validation, on a zone that exists and has a
\* record set of the desired name and type
Matched ==
  /\ RecordLevel
  /\ ZoneAtStart
  /\ Validated
  /\ MatchingAtStart # {}

\* the set a List run reports, and the DELETE entry of a replace, mirror rset
Mirrors(rset) ==
  LET r == rset
  IN /\ params.state = "list" =>
          /\ Len(result.set) = 1
          /\ result.set[1].ttl = r.ttl
          /\ SameValues(result.set[1].values, r.resource_records)
     /\ (params.state = "present" /\ Len(changes.changes) = 2) =>
          /\ changes.changes[1].action = "DELETE"
          /\ changes.changes[1].ttl = r.ttl
          /\ SameValues(changes.changes[1].values, r.resource_records)

\* C15: when several record sets have the desired name and type, the one a
\* List run reports, and the one whose ttl and values fill the DELETE entry
\* of a replace, is the first of them in listing order.
C15_FirstMatchUsed ==
  ((params.state = "list" \/ Len(changes.changes) = 2) /\ Matched) =>
    Mirrors(FirstMatching)

\* C15, amended: it is the last of them in listing order.
C15_LastMatchUsed ==
  ((params.state = "list" \/ Len(changes.changes) = 2) /\ Matched) =>
    Mirrors(LastMatching)

C15_Witness ==
  /\ Matched
  /\ params.state = "present"
  /\ Len(changes.changes) = 2
  /\ FirstMatching.ttl # LastMatching.ttl
  /\ changes.changes[1].ttl = LastMatching.ttl
  /\ submitted # <<>>

\* the provider's last reply to the run
LastReply == replies[Len(replies)]

\* C16: an Absent run that gives the desired type and values, on a zone that
\* has a record set of the desired name and type, builds one batch of a
\* single DELETE carrying the caller's values and the caller's (or the
\* default) ttl, whatever the matched record set holds, and submits no other
\* batch; when the provider rejects it the run fails with the provider's
\* message, the provider keeps what it held, and changed=true is reported
\* only for a batch the provider accepted.
C16_AbsentDeletesWhatCallerGave ==
  (/\ params.state = "absent"
   /\ Matched) =>
    LET batch == changes.changes
    IN /\ Len(batch) = 1
       /\ batch[1].action = "DELETE"
       /\ batch[1].name = NormalName(params.record)
       /\ batch[1].type = params.type
       /\ batch[1].ttl = params.ttl
       /\ SameValues(batch[1].values, DesiredValues)
       /\ pc \in {"commit", "done"}
       /\ pc = "done" => submitted # <<>>
       /\ \A k \in 1..Len(submitted) : submitted[k] = batch
       /\ (pc = "done" /\ LastReply.Code # "OK") =>
            /\ result = FailJson(LastReply.Message, <<>>)
            /\ ProviderUntouched
       /\ (pc = "done" /\ LastReply.Code = "OK") => result = ExitJson(TRUE)
       /\ (\A i \in MatchingAtStart : ~EqualsDesired(SetsAtStart[i])) =>
            \A k \in 1..Len(replies) : replies[k].Code # "OK"

C16_Witness ==
  /\ Matched
  /\ params.state = "absent"
  /\ \A i \in MatchingAtStart :
       /\ SetsAtStart[i].ttl # params.ttl
       /\ ~SameValues(SetsAtStart[i].resource_records, DesiredValues)
  /\ Len(changes.changes) = 1
  /\ changes.changes[1].ttl = params.ttl
  /\ pc = "done"
  /\ LastReply = InvalidChangeBatch
  /\ result = FailJson(InvalidChangeBatch.Message, <<>>)

\* the caller gave no value, or an empty one
ValueMissing == params.value.kind = "none" \/ DesiredValues = <<>>

\* C17: in a run on a record, on a zone that exists, a missing type gives the
\* 'type required' error, also when the value is missing too; with a type, a
\* missing or empty value gives the 'value required' error when the intent is
\* Present or Absent; either error comes before the zone's record sets are
\* listed and before a batch is built; a List run with a type and no value is
\* not an error.
C17_ValidationFirst ==
  (RecordLevel /\ ZoneAtStart) =>
    /\ params.type = "" =>
         /\ pc = "done"
         /\ result = FailJson(TypeRequiredMsg, <<>>)
         /\ NoMutation
         /\ changes = NoChanges
    /\ (/\ params.type # ""
        /\ params.state \in {"present", "absent"}
        /\ ValueMissing) =>
         /\ pc = "done"
         /\ result = FailJson(ValueRequiredMsg, <<>>)
         /\ NoMutation
         /\ changes = NoChanges
    /\ (params.type # "" /\ params.state = "list") =>
         /\ pc = "done"
         /\ result.kind = "exit"
         /\ calls = <<"get_all_hosted_zones", "get_all_rrsets">>

C17_Witness ==
  /\ RecordLevel
  /\ ZoneAtStart
  /\ params.type = ""
  /\ params.value.kind = "none"
  /\ params.state = "present"
  /\ result = FailJson(TypeRequiredMsg, <<>>)
  /\ calls = <<"get_all_hosted_zones">>

\* C18: a run on a record whose zone, named in its trailing-dot form, is not
\* among the provider's zones fails with the zone-not-found error for every
\* intent, before any record set is listed and with no batch built or
\* submitted; and the zone is found, with the same id, whether its name is
\* given with or without the trailing dot.
C18_ZoneNotFoundFatal ==
  RecordLevel =>
    /\ ~ZoneAtStart =>
         /\ pc = "done"
         /\ result = FailJson(ZoneNotFoundMsg, NormalName(params.zone))
         /\ NoMutation
         /\ changes = NoChanges
         /\ submitted = <<>>
    /\ ZoneAtStart =>
         /\ result.msg # ZoneNotFoundMsg
         /\ Validated =>
              /\ Len(calls) >= 2
              /\ calls[2] = "get_all_rrsets"
         /\ changes # NoChanges =>
              /\ changes.hosted_zone_id = IdZ
              /\ HostedZonePrefix \o changes.hosted_zone_id \in
                   {atStart.hostedZones[i].Id :
                      i \in {j \in 1..Len(atStart.hostedZones) :
                               atStart.hostedZones[j].Name = NormalName(params.zone)}}

C18_Witness ==
  /\ RecordLevel
  /\ ~ZoneAtStart
  /\ params.zone = <<"z">>
  /\ params.state = "list"
  /\ params.type = ""
  /\ result = FailJson(ZoneNotFoundMsg, ZoneZ)
  /\ calls = <<"get_all_hosted_zones">>

\* C19: the comparison of the ttl of a record set with the desired ttl holds
\* exactly when the two denote the same number of seconds, whichever of them
\* is a str and whichever an int.
C19_TTLComparedAsInteger ==
  (input.kind = "ttl" /\ output.kind = "ttl") =>
    (output.equal <=> Seconds(input.stored) = Seconds(input.desired))

\* C20: in a run on a record, changed=true is reported exactly when a batch
\* was submitted and the provider accepted it; every batch submitted has one
\* or two entries, two only for a replace (a DELETE then a CREATE, in a
\* Present run that found a record set of the desired name and type); a run
\* whose commit ended on an error reports a failure with the provider's
\* message and not changed=true.
C20_ChangedIffAccepted ==
  RecordLevel =>
    /\ (result.kind = "exit" /\ result.changed) <=>
         (pc = "done" /\ replies # <<>> /\ LastReply.Code = "OK")
    /\ Len(replies) = Len(submitted)
    /\ \A k \in 1..Len(submitted) :
         /\ Len(submitted[k]) \in {1, 2}
         /\ Len(submitted[k]) = 2 =>
              /\ params.state = "present"
              /\ submitted[k][1].action = "DELETE"
              /\ submitted[k][2].action = "CREATE"
    /\ (\E k \in 1..Len(submitted) : Len(submitted[k]) = 2) => MatchingAtStart # {}
    /\ (pc = "done" /\ replies # <<>> /\ LastReply.Code # "OK") =>
         /\ result = FailJson(LastReply.Message, <<>>)
         /\ ProviderUntouched
    /\ pc = "commit" => changes.changes # <<>>

C20_Witness ==
  /\ RecordLevel
  /\ pc = "done"
  /\ Len(submitted) = 2
  /\ Len(submitted[2]) = 2
  /\ replies[1].Code = "PriorRequestNotComplete"
  /\ LastReply.Code = "OK"
  /\ result = ExitJson(TRUE)

====
